---- MODULE Spec2Model ----
(***************************************************************************)
(* Model of package httpx (src/httpx/http.go): one caller running Do or    *)
(* DoTrace through the access check, the retry loop, and the capture of    *)
(* the response into a Trace.                                              *)
(*                                                                         *)
(* Values are records of one shape per Go type so that a nil value and a   *)
(* non-nil value can be compared: NilResponse, NilError, NilBytes,         *)
(* NilTrace, NilRetries, NilAccess stand for Go's nil.                     *)
(***************************************************************************)
EXTENDS Integers, Sequences, FiniteSets, TLC

\* ------------------------------------------------------------------ bounds
\* largest MaxRetries() of an enumerated RetryConfig
MaxN == 2
\* longest response body, in bytes
MaxLen == 3
\* width in bits at which Go's int64 is modelled (the wrap at MaxInt + 1 is
\* the same at every width)
IntBits == 4

MaxInt == 2 ^ (IntBits - 1) - 1
MinInt == 0 - 2 ^ (IntBits - 1)

\* two's-complement wrap of an integer into IntBits bits
Wrap(x) == ((x - MinInt) % (2 ^ IntBits)) + MinInt

Min(a, b) == IF a < b THEN a ELSE b

\* ------------------------------------------------------------------ values
Hosts == {"example.com", "169.254.169.254"}

NilError == [kind |-> "nil", host |-> "", n |-> 0]
\* the error an AccessConfig's Allow may return
AllowError == [kind |-> "allow", host |-> "", n |-> 0]
\* errors.Errorf("request to %s denied", request.URL.Hostname())
DeniedError(h) == [kind |-> "denied", host |-> h, n |-> 0]
\* the error of the i-th Requestor invocation
TransportError(i) == [kind |-> "transport", host |-> "", n |-> i]
DumpRequestError == [kind |-> "dumprequest", host |-> "", n |-> 0]
DumpResponseError == [kind |-> "dumpresponse", host |-> "", n |-> 0]
\* the error the body stream gives instead of EOF
ReadError == [kind |-> "read", host |-> "", n |-> 0]
\* errors.Errorf("webhook response body exceeds %d bytes limit", maxBodyBytes)
SizeError(m) == [kind |-> "size", host |-> "", n |-> m]

\* *http.Response: id is the number of the Requestor invocation that made it
NilResponse == [id |-> 0, status |-> 0]
Response(i, s) == [id |-> i, status |-> s]

\* []byte
NilBytes == [isNil |-> TRUE, bytes |-> <<>>]
Bytes(s) == [isNil |-> FALSE, bytes |-> s]

\* what a body stream delivers: len bytes, then EOF or (broken) an error
Content(l, b) == [data |-> [i \in 1..l |-> i], broken |-> b]
Contents == {Content(l, b) : l \in 0..MaxLen, b \in BOOLEAN}
NoContent == Content(0, FALSE)

\* *RetryConfig (declared outside src/): MaxRetries(), Backoff(n), ShouldRetry
NilRetries == [isNil |-> TRUE, backoffs |-> <<>>]
RetryConfigs == {[isNil |-> FALSE, backoffs |-> [i \in 1..n |-> i]] : n \in 0..MaxN}
MaxRetries(cfg) == Len(cfg.backoffs)
Backoff(cfg, n) == cfg.backoffs[n + 1]

\* *AccessConfig (declared outside src/): Allow(request) returns (allowed, err)
NilAccess == [isNil |-> TRUE, allowed |-> FALSE, err |-> NilError]
AccessConfigs ==
    {[isNil |-> FALSE, allowed |-> a, err |-> e] : a \in BOOLEAN, e \in {NilError, AllowError}}

\* maxBodyBytes arguments: no limit, small limits, and the largest int
Limits == (-1 .. (MaxLen - 1)) \cup {MaxInt}

\* *Trace
NilTrace ==
    [isNil |-> TRUE, Request |-> "", RequestTrace |-> NilBytes, Response |-> NilResponse,
     ResponseTrace |-> NilBytes, ResponseBody |-> NilBytes, StartTime |-> 0, EndTime |-> 0,
     Retries |-> 0]

VARIABLES
    pc,            \* where the caller is: idle, access, dispatch, decide, do_ret, done
    kind,          \* "Do" or "DoTrace"
    request,       \* the request's target host
    retries,       \* *RetryConfig argument
    access,        \* *AccessConfig argument
    maxBodyBytes,  \* DoTrace's maxBodyBytes argument
    response,      \* do's local response
    err,           \* do's local err
    retry,         \* do's local retry
    trace,         \* DoTrace's local trace
    result,        \* what the call returned
    log,           \* calls made on the collaborators, in order
    attempts,      \* the Requestor invocations: what each returned, and the state of
                   \* the body stream of its response (none, open, closed)
    wire,          \* what the returned response's body stream delivers
    now,           \* the clock dates.Now() reads
    dumps,         \* the byte fields of the Trace a sanitizer is called on
    sanitized,     \* what SanitizedRequest or SanitizedResponse returned
    parts,         \* the arguments of NewURNFromParts
    urn,           \* the URN it returned, and what its accessors return
    calls,         \* the locals of each of several calls running at once
    currentRequestor, \* the package variable SetRequestor assigns
    storing,       \* the value a SetRequestor is in the middle of storing
    vias           \* the Requestor each invocation of the call went through

httpVars == <<pc, kind, request, retries, access, maxBodyBytes, response, err, retry, trace,
              result, log, attempts, wire, now>>
sanVars == <<dumps, sanitized>>
urnVars == <<parts, urn>>
callVars == <<calls>>
swapVars == <<currentRequestor, storing, vias>>

vars == <<httpVars, sanVars, urnVars, callVars, swapVars>>

NoResult == [response |-> NilResponse, trace |-> NilTrace, err |-> NilError]

\* no Do or DoTrace has been called
NoCall ==
    /\ pc = "idle"
    /\ kind = ""
    /\ request = ""
    /\ retries = NilRetries
    /\ access = NilAccess
    /\ maxBodyBytes = 0
    /\ response = NilResponse
    /\ err = NilError
    /\ retry = 0
    /\ trace = NilTrace
    /\ result = NoResult
    /\ log = <<>>
    /\ attempts = <<>>
    /\ wire = NoContent
    /\ now = 1

\* no sanitizer has been called and no Trace is held
NoSanitizing ==
    /\ dumps = [RequestTrace |-> <<>>, ResponseTrace |-> <<>>, ResponseBody |-> <<>>]
    /\ sanitized = [op |-> "none", placeholder |-> <<>>, out |-> <<>>]

\* no URN has been built
NoURN ==
    /\ parts = [scheme |-> <<>>, path |-> <<>>, display |-> <<>>]
    /\ urn = [op |-> "none", value |-> <<>>, err |-> "", got |-> <<>>]

\* no further call runs beside the one of pc
NoCalls == calls = <<>>

\* line 220: the package starts with the default Requestor and nobody assigns it
NoSwap ==
    /\ currentRequestor = "DefaultRequestor"
    /\ storing = "none"
    /\ vias = <<>>

Init == NoCall /\ NoSanitizing /\ NoURN /\ NoCalls /\ NoSwap

\* ------------------------------------------------- pure parts of the code
\* accessCheck without the test of allowed (line 31)
accessCheckNoDenial(a, req) ==
    IF a.isNil THEN [proceed |-> TRUE, err |-> NilError]
    ELSE IF a.err # NilError THEN [proceed |-> FALSE, err |-> a.err]
    ELSE [proceed |-> TRUE, err |-> NilError]

\* accessCheck that looks at allowed before it looks at the error
accessCheckAllowedFirst(a, req) ==
    IF a.isNil \/ a.allowed THEN [proceed |-> TRUE, err |-> NilError]
    ELSE IF a.err # NilError THEN [proceed |-> FALSE, err |-> a.err]
    ELSE [proceed |-> FALSE, err |-> DeniedError(req)]

\* do, lines 26-34: the access check. proceed is FALSE when do returns early
\* with (nil, 0, err)
accessCheck(a, req) ==
    IF a.isNil THEN [proceed |-> TRUE, err |-> NilError]
    ELSE IF a.err # NilError THEN [proceed |-> FALSE, err |-> a.err]
    ELSE IF ~a.allowed THEN [proceed |-> FALSE, err |-> DeniedError(req)]
    ELSE [proceed |-> TRUE, err |-> NilError]

\* outcomes of one Requestor.Do, by http.Client.Do's contract: an error with no
\* response, a response with its body open, or (a refused redirect) a response
\* whose body is already closed together with an error
Outcomes == {"error", "ok", "unavailable", "redirect"}
requestorDo(i, o) ==
    CASE o = "error" -> [response |-> NilResponse, err |-> TransportError(i), body |-> "none"]
      [] o = "ok" -> [response |-> Response(i, 200), err |-> NilError, body |-> "open"]
      [] o = "unavailable" -> [response |-> Response(i, 503), err |-> NilError, body |-> "open"]
      [] o = "redirect" ->
            [response |-> Response(i, 302), err |-> TransportError(i), body |-> "closed"]

\* a loop that stops one retry short of MaxRetries()
canRetryNoLast(cfg, n) == ~cfg.isNil /\ n + 1 < MaxRetries(cfg)

\* do, line 43: the loop consults the policy for a further attempt
canRetry(cfg, n) == ~cfg.isNil /\ n < MaxRetries(cfg)

\* readBody, lines 183-205. closed: the deferred response.Body.Close() ran
readBody(content, m) ==
    LET len == Len(content.data) IN
    IF m > 0
    THEN LET limit == Wrap(m + 1)                        \* int64(maxBodyBytes)+1
             read == IF limit <= 0 THEN 0 ELSE Min(limit, len)
             failed == content.broken /\ limit > 0 /\ len < limit
             N == limit - read                           \* LimitedReader.N after ReadAll
         IN  IF failed THEN [bytes |-> NilBytes, err |-> ReadError, closed |-> TRUE]
             ELSE IF N <= 0 THEN [bytes |-> NilBytes, err |-> SizeError(m), closed |-> TRUE]
             ELSE [bytes |-> Bytes(SubSeq(content.data, 1, read)), err |-> NilError,
                   closed |-> TRUE]
    ELSE [bytes |-> Bytes(content.data),
          err |-> IF content.broken THEN ReadError ELSE NilError,
          closed |-> TRUE]

\* httputil.DumpResponse(response, false): the header section of the response
headerDump(resp) == Bytes(<<resp.id, resp.status>>)

\* a dumpResponse that drops the header dump when the body cannot be read
dumpResponseDropsHeaders(resp, m, dumpOk, content) ==
    IF ~dumpOk
    THEN [trace |-> NilBytes, body |-> NilBytes, err |-> DumpResponseError, closed |-> FALSE]
    ELSE LET rb == readBody(content, m) IN
         IF rb.err # NilError
         THEN [trace |-> NilBytes, body |-> NilBytes, err |-> rb.err, closed |-> rb.closed]
         ELSE [trace |-> headerDump(resp), body |-> rb.bytes, err |-> NilError,
               closed |-> rb.closed]

\* dumpResponse, lines 168-180. dumpOk: httputil.DumpResponse succeeded
dumpResponse(resp, m, dumpOk, content) ==
    IF ~dumpOk
    THEN [trace |-> NilBytes, body |-> NilBytes, err |-> DumpResponseError, closed |-> FALSE]
    ELSE LET rb == readBody(content, m) IN
         IF rb.err # NilError
         THEN [trace |-> headerDump(resp), body |-> NilBytes, err |-> rb.err,
               closed |-> rb.closed]
         ELSE [trace |-> headerDump(resp), body |-> rb.bytes, err |-> NilError,
               closed |-> rb.closed]

\* DoTrace, lines 131-135
newTrace(req, t) ==
    [isNil |-> FALSE, Request |-> req, RequestTrace |-> Bytes(<<req>>),
     Response |-> NilResponse, ResponseTrace |-> NilBytes, ResponseBody |-> NilBytes,
     StartTime |-> t, EndTime |-> 0, Retries |-> 0]

\* DoTrace, lines 126-129: what DoTrace returns when DumpRequestOut fails
dumpRequestFailed == [response |-> NilResponse, trace |-> NilTrace, err |-> DumpRequestError]

\* a DoTrace that leaves Retries at its zero value
recordEndNoRetries(tr, t, n) == [tr EXCEPT !.EndTime = t]

\* DoTrace, lines 138-139
recordEnd(tr, t, n) == [tr EXCEPT !.EndTime = t, !.Retries = n]

\* a DoTrace that returns no Trace with an error
returnedNilOnError(tr, e) ==
    [response |-> NilResponse, trace |-> IF e # NilError THEN NilTrace ELSE tr, err |-> e]

\* DoTrace, lines 142, 148 and 151: return trace, err
returned(tr, e) == [response |-> NilResponse, trace |-> tr, err |-> e]

\* a loop that goes on whatever ShouldRetry answers
continuesRegardless(cfg, n, again) == canRetry(cfg, n)

\* do, lines 43-49: the loop goes on when retries are left and ShouldRetry agrees
continues(cfg, n, again) == canRetry(cfg, n) /\ again

\* a loop that does not wait before it retries
sleepForNothing(d) == 0

\* do, line 47: time.Sleep(backoff) suspends the caller for d
sleepFor(d) == d

\* a loop that starts counting anew with each retry
nextRetryReset(n) == 0

\* a loop that forgets to count the retry
nextRetryStuck(n) == n

\* do, line 48: retry++
nextRetry(n) == n + 1

\* DoTrace, lines 145-146
recordResponse(tr, resp, d) ==
    [tr EXCEPT !.Response = resp, !.ResponseTrace = d.trace, !.ResponseBody = d.body]

\* ----------------------------------------------------------------- actions
\* Do(client, request, retries, access), line 20
CallDo ==
    /\ pc = "idle"
    /\ \E h \in Hosts, r \in RetryConfigs \cup {NilRetries}, a \in AccessConfigs \cup {NilAccess} :
          /\ request' = h
          /\ retries' = r
          /\ access' = a
    /\ kind' = "Do"
    /\ pc' = "access"
    /\ UNCHANGED <<maxBodyBytes, response, err, retry, trace, result, log, attempts, wire, now>>
    /\ UNCHANGED <<sanVars, urnVars, callVars, swapVars>>

\* DoTrace(client, request, retries, access, maxBodyBytes), lines 125-135
CallDoTrace ==
    /\ pc = "idle"
    /\ \E h \in Hosts, r \in RetryConfigs \cup {NilRetries}, a \in AccessConfigs \cup {NilAccess},
          m \in Limits, dumpOk \in BOOLEAN :
          /\ request' = h
          /\ retries' = r
          /\ access' = a
          /\ maxBodyBytes' = m
          /\ IF dumpOk
             THEN /\ trace' = newTrace(h, now)
                  /\ pc' = "access"
                  /\ UNCHANGED result
             ELSE /\ result' = dumpRequestFailed
                  /\ pc' = "done"
                  /\ UNCHANGED trace
    /\ kind' = "DoTrace"
    /\ UNCHANGED <<response, err, retry, log, attempts, wire, now>>
    /\ UNCHANGED <<sanVars, urnVars, callVars, swapVars>>

\* do, lines 26-38
AccessCheck ==
    /\ pc = "access"
    /\ LET c == accessCheck(access, request) IN
          /\ log' = IF access.isNil THEN log ELSE Append(log, <<"Allow", 0, 0>>)
          /\ response' = NilResponse
          /\ retry' = 0
          /\ err' = c.err
          /\ pc' = IF c.proceed THEN "dispatch" ELSE "do_ret"
    /\ UNCHANGED <<kind, request, retries, access, maxBodyBytes, trace, result, attempts, wire,
                   now>>
    /\ UNCHANGED <<sanVars, urnVars, callVars, swapVars>>

\* do, line 41
Dispatch ==
    /\ pc = "dispatch"
    /\ \E o \in Outcomes :
          LET i == Len(attempts) + 1
              r == requestorDo(i, o)
          IN  /\ response' = r.response
              /\ err' = r.err
              /\ attempts' = Append(attempts, r)
              /\ log' = Append(log, <<"Do", i, 0>>)
    /\ now' = now + 1
    /\ pc' = "decide"
    /\ UNCHANGED <<kind, request, retries, access, maxBodyBytes, retry, trace, result, wire>>
    /\ UNCHANGED <<sanVars, urnVars, callVars, swapVars>>

\* do, lines 43-53
Decide ==
    /\ pc = "decide"
    /\ IF canRetry(retries, retry)
       THEN LET backoff == Backoff(retries, retry) IN
            \E again \in BOOLEAN :
               LET consulted == log \o << <<"MaxRetries", 0, MaxRetries(retries)>>,
                                          <<"Backoff", retry, backoff>>,
                                          <<"ShouldRetry", backoff, IF again THEN 1 ELSE 0>> >>
               IN  IF continues(retries, retry, again)
                   THEN /\ log' = Append(consulted, <<"Sleep", sleepFor(backoff), 0>>)
                        /\ now' = now + sleepFor(backoff)
                        /\ retry' = nextRetry(retry)
                        /\ pc' = "dispatch"
                   ELSE /\ log' = consulted
                        /\ pc' = "do_ret"
                        /\ UNCHANGED <<now, retry>>
       ELSE /\ log' = IF retries.isNil THEN log
                      ELSE Append(log, <<"MaxRetries", 0, MaxRetries(retries)>>)
            /\ pc' = "do_ret"
            /\ UNCHANGED <<now, retry>>
    /\ UNCHANGED <<kind, request, retries, access, maxBodyBytes, response, err, trace, result,
                   attempts, wire>>
    /\ UNCHANGED <<sanVars, urnVars, callVars, swapVars>>

\* do, line 56 and Do, lines 21-22
DoReturn ==
    /\ pc = "do_ret"
    /\ kind = "Do"
    /\ result' = [response |-> response, trace |-> NilTrace, err |-> err]
    /\ pc' = "done"
    /\ UNCHANGED <<kind, request, retries, access, maxBodyBytes, response, err, retry, trace,
                   log, attempts, wire, now>>
    /\ UNCHANGED <<sanVars, urnVars, callVars, swapVars>>

\* a DoTrace that stores the response before it looks at the error
TraceErrorKeepsResponse ==
    /\ pc = "do_ret"
    /\ kind = "DoTrace"
    /\ err # NilError
    /\ trace' = [recordEnd(trace, now, retry) EXCEPT !.Response = response]
    /\ result' = returned(trace', err)
    /\ pc' = "done"
    /\ UNCHANGED <<kind, request, retries, access, maxBodyBytes, response, err, retry, log,
                   attempts, wire, now>>
    /\ UNCHANGED <<sanVars, urnVars, callVars, swapVars>>

\* DoTrace, lines 137-143: do returned an error
TraceError ==
    /\ pc = "do_ret"
    /\ kind = "DoTrace"
    /\ err # NilError
    /\ trace' = recordEnd(trace, now, retry)
    /\ result' = returned(trace', err)
    /\ pc' = "done"
    /\ UNCHANGED <<kind, request, retries, access, maxBodyBytes, response, err, retry, log,
                   attempts, wire, now>>
    /\ UNCHANGED <<sanVars, urnVars, callVars, swapVars>>

\* DoTrace, lines 137-151: do returned a response. The bytes its body stream
\* delivers are the server's choice; the streams of earlier attempts are never read
TraceResponse ==
    /\ pc = "do_ret"
    /\ kind = "DoTrace"
    /\ err = NilError
    /\ \E dumpOk \in BOOLEAN, content \in Contents :
          LET d == dumpResponse(response, maxBodyBytes, dumpOk, content) IN
             /\ wire' = content
             /\ trace' = recordResponse(recordEnd(trace, now, retry), response, d)
             /\ result' = returned(trace', d.err)
             /\ attempts' = IF d.closed
                            THEN [attempts EXCEPT ![response.id].body = "closed"]
                            ELSE attempts
    /\ pc' = "done"
    /\ UNCHANGED <<kind, request, retries, access, maxBodyBytes, response, err, retry, log, now>>
    /\ UNCHANGED <<sanVars, urnVars, callVars, swapVars>>

Next ==
    \/ CallDo
    \/ CallDoTrace
    \/ AccessCheck
    \/ Dispatch
    \/ Decide
    \/ DoReturn
    \/ TraceError
    \/ TraceResponse

Spec == Init /\ [][Next]_vars

\* every dispatch returns and every sleep ends: a step that can be taken is taken
FairSpec == Spec /\ WF_vars(Next)

\* ------------------------------------------------------------ observations
\* number of Requestor invocations of the call
Invocations == Len(attempts)

LogOps == {log[i][1] : i \in 1..Len(log)}

\* the retry count the call reported: do's third result, and for DoTrace the
\* Retries field of the returned Trace
Reported == IF kind = "DoTrace" THEN result.trace.Retries ELSE retry

\* DoTrace returned after do gave it a response and no error
TracedResponse == pc = "done" /\ kind = "DoTrace" /\ Invocations >= 1 /\ err = NilError

\* DoTrace returned after readBody ran: the header dump was rendered before it
ReadBodyRan == TracedResponse /\ result.err # DumpResponseError

\* Allow was called and answered (false, nil)
Denied == /\ "Allow" \in LogOps
          /\ ~access.allowed
          /\ access.err = NilError

\* Allow was called and answered with an error
AllowFailed == /\ "Allow" \in LogOps
               /\ access.err # NilError

\* ---------------------------------------------------------------- claims
\* C1: when a non-nil AccessPolicy's Allow answers allowed=false (with no
\* error; an answer carrying an error is C3's case), Do and DoTrace return a
\* non-nil error naming the request's target host, and in that call the
\* Requestor is never invoked, nothing sleeps and ShouldRetry (like the rest of
\* the retry policy) is never consulted: Allow is the only call made.
C1_DeniedBeforeDispatch ==
    Denied =>
        /\ Invocations = 0
        /\ log = << <<"Allow", 0, 0>> >>
        /\ pc \in {"do_ret", "done"}
        /\ err = DeniedError(request)
        /\ pc = "done" =>
              /\ result.err = DeniedError(request)
              /\ result.err.host = request
              /\ result.response = NilResponse

C1_Witness ==
    /\ pc = "done"
    /\ Denied
    /\ request = "169.254.169.254"
    /\ ~retries.isNil
    /\ MaxRetries(retries) = MaxN
    /\ result.err = DeniedError("169.254.169.254")

\* C2: with a RetryPolicy of MaxRetries() = N the Requestor is invoked at most
\* N + 1 times in a call (once at most with no policy), whatever the Requestor
\* returns and ShouldRetry answers; and a call that reached the Requestor
\* reports a retry count equal to its invocations minus 1, which is 0 when the
\* first attempt is final or no retry policy applies.
C2_AttemptsBounded ==
    /\ Invocations <= (IF retries.isNil THEN 0 ELSE MaxRetries(retries)) + 1
    /\ (pc \in {"do_ret", "done"} /\ Invocations >= 1) =>
          /\ retry = Invocations - 1
          /\ pc = "done" => Reported = Invocations - 1
    /\ (pc = "done" /\ Invocations >= 1 /\ retries.isNil) => Reported = 0

C2_Witness ==
    /\ pc = "done"
    /\ kind = "DoTrace"
    /\ ~retries.isNil
    /\ MaxRetries(retries) = MaxN
    /\ Invocations = MaxN + 1
    /\ result.trace.Retries = MaxN

\* C3: when Allow returns an error, whatever boolean comes with it, Do returns
\* a nil response and exactly that error, DoTrace returns that error, the
\* Requestor is never invoked and MaxRetries, Backoff and ShouldRetry are never
\* called: the error is not retried.
C3_AllowErrorAborts ==
    AllowFailed =>
        /\ Invocations = 0
        /\ log = << <<"Allow", 0, 0>> >>
        /\ pc \in {"do_ret", "done"}
        /\ err = access.err
        /\ retry = 0
        /\ pc = "done" =>
              /\ result.err = access.err
              /\ result.response = NilResponse

C3_Witness ==
    /\ pc = "done"
    /\ kind = "Do"
    /\ AllowFailed
    /\ access.allowed
    /\ ~retries.isNil
    /\ result.err = AllowError
    /\ result.response = NilResponse

\* C4: readBody at the boundary. For a limit m > 0 a body of L <= m bytes is
\* returned whole and without error, a body of L >= m + 1 bytes gives the
\* size-exceeded error naming m and no body; for m <= 0 a body of any length
\* is returned whole; and no body is returned cut short without an error.
C4_ReadBodyBoundary ==
    ReadBodyRan =>
        LET L == Len(wire.data)
            m == maxBodyBytes
            body == result.trace.ResponseBody
        IN  /\ (~wire.broken /\ m > 0 /\ L <= m) =>
                  (result.err = NilError /\ body = Bytes(wire.data))
            /\ (~wire.broken /\ m > 0 /\ L >= m + 1) =>
                  (result.err = SizeError(m) /\ body = NilBytes)
            /\ (~wire.broken /\ m <= 0) =>
                  (result.err = NilError /\ body = Bytes(wire.data))
            /\ result.err = NilError => body = Bytes(wire.data)

\* C5: when the loop dispatches a retry, the body stream of the response of
\* the attempt before it is closed; and when the call has returned, no body of
\* an attempt other than the last is open.
C5_BodyClosedBeforeRetry ==
    /\ (pc = "dispatch" /\ Invocations >= 1) => attempts[Invocations].body # "open"
    /\ pc = "done" => \A i \in 1..(Invocations - 1) : attempts[i].body # "open"

\* C6: when readBody has run on a response its body stream is closed, on every
\* exit path; and when DoTrace got a response from a call without error, the
\* body of that response is closed once DoTrace has returned.
C6_BodyClosedOnEveryPath ==
    /\ ReadBodyRan => attempts[response.id].body = "closed"
    /\ TracedResponse => attempts[response.id].body = "closed"

\* C7 as stated: when DoTrace fails because the dump of the request or of the
\* response cannot be rendered, it returns a non-nil Trace with the error.
C7_DumpErrorKeepsTrace ==
    (pc = "done" /\ kind = "DoTrace" /\ result.err \in {DumpRequestError, DumpResponseError})
        => ~result.trace.isNil

\* C7 as amended: when the dump of the response cannot be rendered, DoTrace
\* returns the error with a non-nil Trace holding the request, its dump, both
\* timestamps, the retry count and the response, and no response dump or
\* body; when the dump of the request cannot be rendered, DoTrace returns the
\* error with a nil Trace, having called nothing else.
C7_DumpErrorTrace ==
    /\ (pc = "done" /\ kind = "DoTrace" /\ result.err = DumpResponseError) =>
          /\ ~result.trace.isNil
          /\ result.trace.Request = request
          /\ result.trace.RequestTrace = Bytes(<<request>>)
          /\ result.trace.StartTime = 1
          /\ result.trace.EndTime = now
          /\ result.trace.Retries = Invocations - 1
          /\ result.trace.Response = response
          /\ result.trace.Response # NilResponse
          /\ result.trace.ResponseTrace = NilBytes
          /\ result.trace.ResponseBody = NilBytes
    /\ (pc = "done" /\ kind = "DoTrace" /\ result.err = DumpRequestError) =>
          /\ result.trace.isNil
          /\ log = <<>>
          /\ Invocations = 0

C7_Witness ==
    /\ pc = "done"
    /\ kind = "DoTrace"
    /\ result.err = DumpResponseError
    /\ result.trace.Retries = 1
    /\ result.trace.Response = Response(2, 200)

\* C8: when DoTrace runs with a limit m > 0 and the final response's body is
\* longer than m bytes, the body reader having been reached, DoTrace returns
\* the size-exceeded error with a Trace that holds the request dump, the dump
\* of the response headers, the response, both timestamps and the retry
\* count, and no ResponseBody.
C8_SizeExceededTrace ==
    (ReadBodyRan /\ maxBodyBytes > 0 /\ Len(wire.data) > maxBodyBytes) =>
        /\ result.err = SizeError(maxBodyBytes)
        /\ ~result.trace.isNil
        /\ result.trace.RequestTrace = Bytes(<<request>>)
        /\ result.trace.ResponseTrace = headerDump(response)
        /\ result.trace.Response = response
        /\ result.trace.StartTime = 1
        /\ result.trace.EndTime = now
        /\ result.trace.EndTime > result.trace.StartTime
        /\ result.trace.Retries = Invocations - 1
        /\ result.trace.ResponseBody = NilBytes

C8_Witness ==
    /\ ReadBodyRan
    /\ maxBodyBytes = MaxLen - 1
    /\ Len(wire.data) = MaxLen
    /\ result.err = SizeError(MaxLen - 1)
    /\ result.trace.Retries = 1
    /\ result.trace.ResponseTrace = headerDump(Response(2, 200))

\* C9: in every Trace DoTrace returns, ResponseBody is set only if Response is
\* set, ResponseTrace is set only if Response is set, and Response is set only
\* if the retry loop ended without error (it is then the loop's response).
C9_TraceFields ==
    (pc = "done" /\ kind = "DoTrace" /\ ~result.trace.isNil) =>
        /\ result.trace.ResponseBody # NilBytes => result.trace.Response # NilResponse
        /\ result.trace.ResponseTrace # NilBytes => result.trace.Response # NilResponse
        /\ result.trace.Response # NilResponse =>
              /\ err = NilError
              /\ Invocations >= 1
              /\ result.trace.Response = attempts[Invocations].response

C9_Witness ==
    /\ pc = "done"
    /\ kind = "DoTrace"
    /\ result.err = NilError
    /\ result.trace.Response = Response(1, 200)
    /\ result.trace.ResponseTrace # NilBytes
    /\ result.trace.ResponseBody = Bytes(<<1, 2>>)

\* C10: a call that invoked the Requestor returns from Do exactly the
\* response and the error of its last invocation, never those of an earlier
\* one; and when such a call ends in an error under DoTrace, the Trace
\* returned is non-nil and its Retries is the number of retries performed.
C10_LastAttemptReturned ==
    /\ (pc = "done" /\ kind = "Do" /\ Invocations >= 1) =>
          /\ result.response = attempts[Invocations].response
          /\ result.err = attempts[Invocations].err
    /\ (pc = "done" /\ kind = "DoTrace" /\ Invocations >= 1 /\ result.err # NilError) =>
          /\ ~result.trace.isNil
          /\ result.trace.Retries = Invocations - 1
          /\ err # NilError => result.err = attempts[Invocations].err

C10_Witness ==
    /\ pc = "done"
    /\ kind = "DoTrace"
    /\ Invocations = 3
    /\ attempts[1].err = NilError
    /\ attempts[2].err = TransportError(2)
    /\ result.err = TransportError(3)
    /\ result.trace.Retries = 2

\* the Requestor that fails k times and then answers 200, as far as it was called
FollowsScript(k) ==
    \A i \in 1..Invocations :
        LET r == requestorDo(i, IF i <= k THEN "error" ELSE "ok") IN
           /\ attempts[i].response = r.response
           /\ attempts[i].err = r.err

\* every answer ShouldRetry gave was true after a transport error and false after a 200
AnswersFollowPolicy ==
    \A j \in 4..Len(log) :
        log[j][1] = "ShouldRetry" =>
            LET a == attempts[log[j - 3][2]] IN
               /\ (a.response = NilResponse /\ a.err # NilError) => log[j][3] = 1
               /\ a.response.status = 200 => log[j][3] = 0

\* C11: with a policy of MaxRetries() = N whose ShouldRetry is true after a
\* transport error and false after a 200, and a Requestor that fails k times
\* and then returns 200: for k <= N the call ends after exactly k + 1
\* dispatches with the 200 response, no error and k retries; for k > N it ends
\* with the transport error of dispatch N + 1 and N retries.
C11_FailThenSucceed ==
    \A k \in 0..(MaxN + 2) :
        (pc = "done" /\ ~retries.isNil /\ Invocations >= 1 /\ FollowsScript(k)
            /\ AnswersFollowPolicy) =>
            LET N == MaxRetries(retries) IN
            IF k <= N
            THEN /\ Invocations = k + 1
                 /\ response = Response(k + 1, 200)
                 /\ err = NilError
                 /\ retry = k
                 /\ Reported = k
                 /\ kind = "Do" => (result.response = Response(k + 1, 200)
                                    /\ result.err = NilError)
            ELSE /\ Invocations = N + 1
                 /\ response = NilResponse
                 /\ err = TransportError(N + 1)
                 /\ result.err = TransportError(N + 1)
                 /\ retry = N
                 /\ Reported = N

C11_Witness ==
    /\ pc = "done"
    /\ kind = "Do"
    /\ ~retries.isNil
    /\ MaxRetries(retries) = 2
    /\ FollowsScript(2)
    /\ AnswersFollowPolicy
    /\ Invocations = 3
    /\ result.response = Response(3, 200)
    /\ result.err = NilError
    /\ retry = 2

\* the loop may go on: a policy is set and retry is below its MaxRetries()
PolicyAllows == ~retries.isNil /\ retry < MaxRetries(retries)

\* the step in which the loop of do decides, after an invocation has returned
DecideStep == pc = "decide" /\ pc' # "decide"

\* in this step the policy was asked Backoff(retry) and then ShouldRetry with
\* that backoff, and answered ans
Asked(ans) ==
    /\ Len(log') >= Len(log) + 3
    /\ log'[Len(log) + 1] = <<"MaxRetries", 0, MaxRetries(retries)>>
    /\ log'[Len(log) + 2] = <<"Backoff", retry, Backoff(retries, retry)>>
    /\ log'[Len(log) + 3] = <<"ShouldRetry", Backoff(retries, retry), ans>>

\* C14: after an invocation the loop goes to another one if and only if a
\* policy is set, retry < MaxRetries(), and ShouldRetry, asked with the current
\* request, the returned response and Backoff(retry), answers true; the
\* outcome of the invocation itself decides nothing. With a nil policy a
\* permitted call invokes the Requestor exactly once.
C14_PolicyDriven ==
    /\ [][DecideStep =>
            /\ pc' \in {"dispatch", "do_ret"}
            /\ IF PolicyAllows
               THEN /\ Asked(1) \/ Asked(0)
                    /\ pc' = "dispatch" <=> Asked(1)
               ELSE pc' = "do_ret"]_vars
    /\ []((pc = "done" /\ retries.isNil /\ accessCheck(access, request).proceed
              /\ result.err # DumpRequestError)
            => Invocations = 1)

\* a retry after a 200 response, and a transport error that was not retried
\* although retries were left
C14_Witness ==
    /\ pc = "done"
    /\ Invocations = 2
    /\ attempts[1].response.status = 200
    /\ attempts[2].err = TransportError(2)
    /\ MaxRetries(retries) = 2
    /\ retry = 1

\* the sleeps that preceded invocation n
RECURSIVE Slept(_)
Slept(n) == IF n <= 1 THEN 0 ELSE Slept(n - 1) + Backoff(retries, n - 2)

\* the position of invocation i in the log of a call
DoAt(i) == (IF access.isNil THEN 0 ELSE 1) + 5 * (i - 1) + 1

\* C15: within one call the attempts are strictly sequential: invocation
\* i + 1 begins only after invocation i returned, ShouldRetry answered true and
\* a sleep of exactly Backoff(i - 1) ended; Backoff is called with 0, 1, 2, ...
\* in order and nothing is slept after the final invocation.
C15_SequentialAttempts ==
    /\ \A i \in 1..Invocations : log[DoAt(i)] = <<"Do", i, 0>>
    /\ \A i \in 1..(Invocations - 1) :
          LET d == Backoff(retries, i - 1) IN
             /\ log[DoAt(i) + 1] = <<"MaxRetries", 0, MaxRetries(retries)>>
             /\ log[DoAt(i) + 2] = <<"Backoff", i - 1, d>>
             /\ log[DoAt(i) + 3] = <<"ShouldRetry", d, 1>>
             /\ log[DoAt(i) + 4] = <<"Sleep", d, 0>>
    /\ Cardinality({j \in 1..Len(log) : log[j][1] = "Do"}) = Invocations
    /\ pc \in {"decide", "do_ret", "done"} =>
          /\ Cardinality({j \in 1..Len(log) : log[j][1] = "Sleep"})
                = IF Invocations = 0 THEN 0 ELSE Invocations - 1
          /\ Invocations >= 1 =>
                \A j \in (DoAt(Invocations) + 1)..Len(log) : log[j][1] # "Sleep"
          /\ now = 1 + Invocations + Slept(Invocations)

C15_Witness ==
    /\ pc = "done"
    /\ Invocations = 3
    /\ log[DoAt(2) + 2] = <<"Backoff", 1, 2>>
    /\ log[DoAt(2) + 4] = <<"Sleep", 2, 0>>
    /\ log[Len(log)] = <<"MaxRetries", 0, 2>>

\* C18: a call ends: the retry counter grows by one with each further
\* invocation and never passes MaxRetries(), so once every invocation returns
\* and every sleep ends the call returns.
C18_Terminates ==
    /\ [][(pc = "decide" /\ pc' = "dispatch") =>
             (retry' = retry + 1 /\ retry' <= MaxRetries(retries))]_vars
    /\ (pc # "idle") ~> (pc = "done")

\* a call that used every retry its policy has and returned
C18_Witness ==
    /\ pc = "done"
    /\ MaxRetries(retries) = MaxN
    /\ Invocations = MaxN + 1
    /\ retry = MaxN

\* ---------------------------------------------------------- the sanitizers
\* the longest request dump, and the longest response header dump and body
MaxDump == 5
MaxPart == 2

\* a null byte, CR, LF, a letter, the lead byte of a two-byte rune and a
\* continuation byte
ByteValues == {0, 13, 10, 65, 195, 169}

BytesUpTo(n) == UNION {[1..k -> ByteValues] : k \in 0..n}

\* "\r\n\r\n"
Separator == <<13, 10, 13, 10>>

\* U+FFFD as the source spells it: EF BF BD
Marker == <<239, 191, 189>>

\* the strings "[]", "\x00" and "\xc3"
Placeholders == {<<91, 93>>, <<0>>, <<195>>}

\* bytes.SplitN(s, sep, 2)
SplitN(s, sep) ==
    LET hits == {i \in 1..(Len(s) - Len(sep) + 1) : SubSeq(s, i, i + Len(sep) - 1) = sep}
    IN  IF hits = {}
        THEN <<s>>
        ELSE LET i == CHOOSE h \in hits : \A j \in hits : h <= j
             IN  <<SubSeq(s, 1, i - 1), SubSeq(s, i + Len(sep), Len(s))>>

\* utf8.DecodeRune at s[i]: the width of the encoding that starts there, 0
\* when the bytes there are no encoding (RuneError with width 1)
runeWidth(s, i) ==
    LET c == s[i]
        n == IF c < 128 THEN 1
             ELSE IF c \in 194..223 THEN 2
             ELSE IF c \in 224..239 THEN 3
             ELSE IF c \in 240..244 THEN 4
             ELSE 0
        lo == IF c = 224 THEN 160 ELSE IF c = 240 THEN 144 ELSE 128
        hi == IF c = 237 THEN 159 ELSE IF c = 244 THEN 143 ELSE 191
    IN  IF n <= 1 THEN n
        ELSE IF i + n - 1 > Len(s) THEN 0
        ELSE IF s[i + 1] \in lo..hi /\ \A j \in (i + 2)..(i + n - 1) : s[j] \in 128..191
             THEN n
             ELSE 0

RECURSIVE validFrom(_, _)
validFrom(s, i) ==
    IF i > Len(s) THEN TRUE
    ELSE LET w == runeWidth(s, i) IN w # 0 /\ validFrom(s, i + w)

\* utf8.Valid
Valid(s) == validFrom(s, 1)

RECURSIVE toValidFrom(_, _, _)
toValidFrom(s, i, invalid) ==
    IF i > Len(s) THEN <<>>
    ELSE LET w == runeWidth(s, i) IN
         IF w = 0
         THEN (IF invalid THEN <<>> ELSE Marker) \o toValidFrom(s, i + 1, TRUE)
         ELSE SubSeq(s, i, i + w - 1) \o toValidFrom(s, i + w, FALSE)

\* a conversion that keeps nothing but ASCII
ToValidASCII(s) == toValidFrom([i \in 1..Len(s) |-> IF s[i] < 128 THEN s[i] ELSE 255], 1, FALSE)

\* bytes.ToValidUTF8(s, U+FFFD): each run of invalid bytes becomes one marker
ToValidUTF8(s) == toValidFrom(s, 1, FALSE)

\* line 121: bytes.ReplaceAll(b, []byte{0}, U+FFFD)
RECURSIVE replaceNullChars(_)
replaceNullChars(b) ==
    IF b = <<>> THEN <<>>
    ELSE (IF Head(b) = 0 THEN Marker ELSE <<Head(b)>>) \o replaceNullChars(Tail(b))

\* lines 104-118
santizedTrace(header, body, bodyPlaceHolder) ==
    replaceNullChars(ToValidUTF8(header))
        \o (IF Valid(body) THEN replaceNullChars(body) ELSE bodyPlaceHolder)

\* lines 83-96
sanitizedRequest(tr, placeholder) ==
    LET split == SplitN(tr.RequestTrace, Separator)
        headers == split[1] \o Separator
        body == IF Len(split) > 1 THEN split[2] ELSE <<>>
    IN  santizedTrace(headers, body, placeholder)

\* lines 100-102
sanitizedResponse(tr, placeholder) ==
    santizedTrace(tr.ResponseTrace, tr.ResponseBody, placeholder)

\* a Trace with any request dump, or with any response header dump and body
SanitizeInit ==
    /\ \/ \E d \in BytesUpTo(MaxDump) :
             dumps = [RequestTrace |-> d, ResponseTrace |-> <<>>, ResponseBody |-> <<>>]
       \/ \E h \in BytesUpTo(MaxPart), b \in BytesUpTo(MaxPart) :
             dumps = [RequestTrace |-> <<>>, ResponseTrace |-> h, ResponseBody |-> b]
    /\ sanitized = [op |-> "none", placeholder |-> <<>>, out |-> <<>>]
    /\ NoCall /\ NoURN /\ NoCalls /\ NoSwap

SanitizedRequest ==
    /\ \E placeholder \in Placeholders :
          sanitized' = [op |-> "request", placeholder |-> placeholder,
                        out |-> sanitizedRequest(dumps, placeholder)]
    /\ UNCHANGED <<dumps, httpVars, urnVars, callVars, swapVars>>

SanitizedResponse ==
    /\ \E placeholder \in Placeholders :
          sanitized' = [op |-> "response", placeholder |-> placeholder,
                        out |-> sanitizedResponse(dumps, placeholder)]
    /\ UNCHANGED <<dumps, httpVars, urnVars, callVars, swapVars>>

SanitizeNext ==
    \/ SanitizedRequest
    \/ SanitizedResponse

SanitizeSpec == SanitizeInit /\ [][SanitizeNext]_vars

\* the bytes are valid UTF-8 and hold no null byte
CleanText(s) == Valid(s) /\ \A i \in 1..Len(s) : s[i] # 0

HasSeparator(s) == \E i \in 1..(Len(s) - 3) : SubSeq(s, i, i + 3) = Separator

\* C12: whatever bytes the Trace holds and whatever placeholder the caller
\* passes, the string SanitizedRequest or SanitizedResponse returns holds no
\* null byte and is valid UTF-8.
C12_SanitizedIsSafe ==
    sanitized.op # "none" => CleanText(sanitized.out)

\* C13: a request dump that is valid text without null bytes comes back as it
\* is when it has a blank-line separator, and as headers with an empty body,
\* that is followed by the separator, when it has none; a valid response
\* header dump and body without null bytes come back as the one followed by
\* the other.
C13_ValidTextUnchanged ==
    /\ (sanitized.op = "request" /\ CleanText(dumps.RequestTrace)) =>
          sanitized.out = IF HasSeparator(dumps.RequestTrace)
                          THEN dumps.RequestTrace
                          ELSE dumps.RequestTrace \o Separator
    /\ (sanitized.op = "response" /\ CleanText(dumps.ResponseTrace)
           /\ CleanText(dumps.ResponseBody)) =>
          sanitized.out = dumps.ResponseTrace \o dumps.ResponseBody

C13_Witness ==
    /\ sanitized.op = "request"
    /\ CleanText(dumps.RequestTrace)
    /\ HasSeparator(dumps.RequestTrace)
    /\ Len(dumps.RequestTrace) = MaxDump
    /\ dumps.RequestTrace[MaxDump] = 65
    /\ sanitized.out = dumps.RequestTrace

\* ------------------------------------------------------------------ URNs
\* the longest path and the longest display
MaxText == 2

\* lines 282-293, the ten schemes spelled out
validSchemes ==
    { <<"t", "e", "l">>,
      <<"f", "a", "c", "e", "b", "o", "o", "k">>,
      <<"t", "e", "l", "e", "g", "r", "a", "m">>,
      <<"t", "w", "i", "t", "t", "e", "r">>,
      <<"t", "w", "i", "t", "t", "e", "r", "i", "d">>,
      <<"v", "i", "b", "e", "r">>,
      <<"l", "i", "n", "e">>,
      <<"j", "i", "o", "c", "h", "a", "t">>,
      <<"m", "a", "i", "l", "t", "o">>,
      <<"e", "x", "t">> }

LowerLetters == <<"a", "b", "c", "d", "e", "f", "g", "h", "i", "j", "k", "l", "m",
                  "n", "o", "p", "q", "r", "s", "t", "u", "v", "w", "x", "y", "z">>
UpperLetters == <<"A", "B", "C", "D", "E", "F", "G", "H", "I", "J", "K", "L", "M",
                  "N", "O", "P", "Q", "R", "S", "T", "U", "V", "W", "X", "Y", "Z">>

IndexIn(letters, c) == CHOOSE i \in 1..Len(letters) : letters[i] = c

\* strings.ToLower, on the characters of the model
ToLower(s) ==
    [i \in 1..Len(s) |->
        IF \E j \in 1..Len(UpperLetters) : UpperLetters[j] = s[i]
        THEN LowerLetters[IndexIn(UpperLetters, s[i])]
        ELSE s[i]]

\* the same scheme in capitals
InCapitals(s) == [i \in 1..Len(s) |-> UpperLetters[IndexIn(LowerLetters, s[i])]]

\* the schemes a caller passes: the valid ones in lower case, in capitals and
\* capitalised, and some that are not schemes
SchemeInputs ==
    validSchemes
        \cup {InCapitals(s) : s \in validSchemes}
        \cup {[InCapitals(s) EXCEPT ![2] = s[2]] : s \in validSchemes}
        \cup { <<>>, <<"s", "m", "s">>, <<"t", "e">>, <<"T", "E", "L", "S">>, <<"e", "x", "t", ":">> }

PathChars == {"a", "A", ":", "#"}
DisplayChars == {"b", "B", "#"}

TextUpTo(chars, n) == UNION {[1..k -> chars] : k \in 0..n}

\* line 349
NilURN == <<>>

\* a newURN that keeps the display as it was passed
newURNKeepsCase(scheme, path, display) ==
    IF display # <<>>
    THEN scheme \o <<":">> \o path \o <<"#">> \o display
    ELSE scheme \o <<":">> \o path

\* lines 392-398
newURN(scheme, path, display) ==
    IF display # <<>>
    THEN scheme \o <<":">> \o path \o <<"#">> \o ToLower(display)
    ELSE scheme \o <<":">> \o path

\* lines 382-389
NewURNFromParts(scheme, path, display) ==
    IF ToLower(scheme) \notin validSchemes
    THEN [value |-> NilURN, err |-> "invalid scheme"]
    ELSE [value |-> newURN(ToLower(scheme), path, display), err |-> ""]

\* lines 301-311
Path(v) ==
    LET split == SplitN(v, <<":">>) IN
    IF Len(split) = 2
    THEN LET pathParts == SplitN(split[2], <<"#">>) IN
         IF Len(pathParts) = 2 THEN pathParts[1] ELSE split[2]
    ELSE v

\* lines 314-320
Scheme(v) ==
    LET split == SplitN(v, <<":">>) IN
    IF Len(split) = 2 THEN split[1] ELSE <<>>

\* lines 323-332
Display(v) ==
    LET split == SplitN(v, <<":">>) IN
    IF Len(split) = 2
    THEN LET pathParts == SplitN(split[2], <<"#">>) IN
         IF Len(pathParts) = 2 THEN pathParts[2] ELSE <<>>
    ELSE <<>>

\* lines 335-341
Identity(v) ==
    LET split == SplitN(v, <<"#">>) IN
    IF Len(split) = 2 THEN split[1] ELSE v

URNInit ==
    /\ parts \in [scheme : SchemeInputs,
                  path : TextUpTo(PathChars, MaxText),
                  display : TextUpTo(DisplayChars, MaxText)]
    /\ urn = [op |-> "none", value |-> <<>>, err |-> "", got |-> <<>>]
    /\ NoCall /\ NoSanitizing /\ NoCalls /\ NoSwap

CallNewURNFromParts ==
    /\ urn.op = "none"
    /\ LET r == NewURNFromParts(parts.scheme, parts.path, parts.display) IN
          urn' = [op |-> "new", value |-> r.value, err |-> r.err, got |-> <<>>]
    /\ UNCHANGED <<parts, httpVars, sanVars, callVars, swapVars>>

ReadScheme ==
    /\ urn.op # "none"
    /\ urn' = [urn EXCEPT !.op = "Scheme", !.got = Scheme(urn.value)]
    /\ UNCHANGED <<parts, httpVars, sanVars, callVars, swapVars>>

ReadPath ==
    /\ urn.op # "none"
    /\ urn' = [urn EXCEPT !.op = "Path", !.got = Path(urn.value)]
    /\ UNCHANGED <<parts, httpVars, sanVars, callVars, swapVars>>

ReadDisplay ==
    /\ urn.op # "none"
    /\ urn' = [urn EXCEPT !.op = "Display", !.got = Display(urn.value)]
    /\ UNCHANGED <<parts, httpVars, sanVars, callVars, swapVars>>

ReadIdentity ==
    /\ urn.op # "none"
    /\ urn' = [urn EXCEPT !.op = "Identity", !.got = Identity(urn.value)]
    /\ UNCHANGED <<parts, httpVars, sanVars, callVars, swapVars>>

URNNext ==
    \/ CallNewURNFromParts
    \/ ReadScheme
    \/ ReadPath
    \/ ReadDisplay
    \/ ReadIdentity

URNSpec == URNInit /\ [][URNNext]_vars

NoHash(s) == \A i \in 1..Len(s) : s[i] # "#"

\* C19: for a scheme that is valid in some letter case, a path without '#'
\* and any display, the URN NewURNFromParts builds gives back the scheme in
\* lower case, the path as it was, the display in lower case (empty when it
\* was empty) and scheme ":" path as its identity; for any other scheme
\* NewURNFromParts returns the nil URN and an error.
C19_PartsRoundTrip ==
    urn.op # "none" =>
        IF ToLower(parts.scheme) \in validSchemes
        THEN /\ urn.err = ""
             /\ NoHash(parts.path) =>
                   /\ urn.op = "Scheme" => urn.got = ToLower(parts.scheme)
                   /\ urn.op = "Path" => urn.got = parts.path
                   /\ urn.op = "Display" => urn.got = ToLower(parts.display)
                   /\ urn.op = "Identity" =>
                         urn.got = ToLower(parts.scheme) \o <<":">> \o parts.path
        ELSE /\ urn.value = NilURN
             /\ urn.err # ""

C19_Witness ==
    /\ urn.op = "Display"
    /\ parts.scheme = <<"T", "w", "I", "T", "T", "E", "R", "I", "D">>
    /\ parts.path = <<":", "A">>
    /\ parts.display = <<"B", "#">>
    /\ urn.value = <<"t", "w", "i", "t", "t", "e", "r", "i", "d", ":", ":", "A", "#", "b", "#">>
    /\ urn.got = <<"b", "#">>

\* ------------------------------------------------- calls running at once
\* how many calls run at once
MaxCalls == 2

Calls == 1..MaxCalls

\* what the Requestor may answer a call: an error, a 200 or a 503
CallOutcomes == {"error", "ok", "unavailable"}

\* the i-th invocation made by call c, told apart from every other call's
InvocationOf(c, i) == (MaxN + 2) * c + i

\* the locals of do in a call that has not started
IdleCall ==
    [pc |-> "idle", retries |-> NilRetries, response |-> NilResponse, err |-> NilError,
     retry |-> 0, invocations |-> 0, last |-> [response |-> NilResponse, err |-> NilError],
     result |-> [response |-> NilResponse, retry |-> 0, err |-> NilError]]

\* a retry counter that all calls share
countRetryShared(cs, c) == [k \in DOMAIN cs |-> [cs[k] EXCEPT !.retry = nextRetry(@)]]

\* do, line 48: retry is a local of the call
countRetry(cs, c) == [cs EXCEPT ![c].retry = nextRetry(@)]

CallsInit ==
    /\ calls = [c \in Calls |-> IdleCall]
    /\ NoCall /\ NoSanitizing /\ NoURN /\ NoSwap

\* Do, line 21 and do, lines 36-38, with no access policy
StartCall ==
    /\ \E c \in Calls, r \in RetryConfigs \cup {NilRetries} :
          /\ calls[c].pc = "idle"
          /\ calls' = [calls EXCEPT ![c].pc = "dispatch", ![c].retries = r]
    /\ UNCHANGED <<httpVars, sanVars, urnVars, swapVars>>

\* do, line 41
DispatchCall ==
    /\ \E c \in Calls, o \in CallOutcomes :
          /\ calls[c].pc = "dispatch"
          /\ LET a == requestorDo(InvocationOf(c, calls[c].invocations + 1), o) IN
                calls' = [calls EXCEPT ![c].response = a.response,
                                       ![c].err = a.err,
                                       ![c].invocations = @ + 1,
                                       ![c].last = [response |-> a.response, err |-> a.err],
                                       ![c].pc = "decide"]
    /\ UNCHANGED <<httpVars, sanVars, urnVars, swapVars>>

\* do, lines 43-56
DecideCall ==
    /\ \E c \in Calls, again \in BOOLEAN :
          /\ calls[c].pc = "decide"
          /\ canRetry(calls[c].retries, calls[c].retry) \/ ~again
          /\ IF continues(calls[c].retries, calls[c].retry, again)
             THEN calls' = [countRetry(calls, c) EXCEPT ![c].pc = "dispatch"]
             ELSE calls' = [calls EXCEPT
                               ![c].pc = "done",
                               ![c].result = [response |-> calls[c].response,
                                              retry |-> calls[c].retry,
                                              err |-> calls[c].err]]
    /\ UNCHANGED <<httpVars, sanVars, urnVars, swapVars>>

CallsNext ==
    \/ StartCall
    \/ DispatchCall
    \/ DecideCall

CallsSpec == CallsInit /\ [][CallsNext]_vars

\* C16: with calls running at once and the Requestor fixed, under every
\* interleaving a step of one call leaves the locals of every other call as
\* they were, and each call returns the outcome of its own last invocation,
\* a retry count of its own invocations less one, and at most its own
\* MaxRetries() + 1 invocations.
C16_CallsIndependent ==
    /\ [][\A c \in Calls, k \in Calls :
             (c # k /\ calls'[c] # calls[c]) => calls'[k] = calls[k]]_vars
    /\ [](\A c \in Calls :
             calls[c].pc = "done" =>
                /\ calls[c].result.retry = calls[c].invocations - 1
                /\ calls[c].retries.isNil => calls[c].invocations = 1
                /\ ~calls[c].retries.isNil =>
                      calls[c].invocations <= MaxRetries(calls[c].retries) + 1
                /\ calls[c].result.response = calls[c].last.response
                /\ calls[c].result.err = calls[c].last.err
                /\ \E o \in CallOutcomes :
                      LET a == requestorDo(InvocationOf(c, calls[c].invocations), o) IN
                         /\ calls[c].result.response = a.response
                         /\ calls[c].result.err = a.err)

\* one call is between two of its attempts while another, started and
\* finished meanwhile with a different policy, has returned
C16_Witness ==
    /\ calls[1].pc = "dispatch"
    /\ calls[1].retry = 1
    /\ MaxRetries(calls[1].retries) = 1
    /\ calls[2].pc = "done"
    /\ calls[2].result.retry = 2
    /\ calls[2].result.response = Response(InvocationOf(2, 3), 200)

\* ------------------------------------------- SetRequestor during a call
\* line 220 and what a caller of SetRequestor installs
Requestors == {"DefaultRequestor", "MockRequestor"}

\* line 41 reads the package variable that line 224 writes, and nothing
\* orders the two: with no store in flight the read yields the variable; a
\* read that runs into a store yields the old value, the new one, or, the
\* interface value being two words, the type of the one with the data of the
\* other
readCurrentRequestor(cur, st) ==
    IF st = "none" THEN {cur}
    ELSE IF st = cur THEN {cur}
    ELSE {cur, st, "torn"}

\* what an installed Requestor answers here: an error or a 200
SwapOutcomes == {"error", "ok"}

\* SetRequestor, line 224: the store begins
SetRequestorBegin ==
    /\ storing = "none"
    /\ \E requestor \in Requestors : storing' = requestor
    /\ UNCHANGED <<currentRequestor, vias, httpVars, sanVars, urnVars, callVars>>

\* SetRequestor, line 224: the store is done
SetRequestorEnd ==
    /\ storing # "none"
    /\ currentRequestor' = storing
    /\ storing' = "none"
    /\ UNCHANGED <<vias, httpVars, sanVars, urnVars, callVars>>

\* do, line 41: currentRequestor.Do on the value the read yielded; a call on a
\* torn interface value runs some Do on a foreign receiver or crashes
DispatchVia ==
    /\ pc = "dispatch"
    /\ \E via \in readCurrentRequestor(currentRequestor, storing),
          o \in SwapOutcomes \cup {"crash"} :
          /\ o = "crash" => via = "torn"
          /\ vias' = Append(vias, [via |-> via, current |-> currentRequestor,
                                   storing |-> storing])
          /\ IF o = "crash"
             THEN /\ pc' = "crashed"
                  /\ UNCHANGED <<response, err, attempts, log, now>>
             ELSE LET i == Len(attempts) + 1
                      r == requestorDo(i, o)
                  IN  /\ response' = r.response
                      /\ err' = r.err
                      /\ attempts' = Append(attempts, r)
                      /\ log' = Append(log, <<"Do", i, 0>>)
                      /\ now' = now + 1
                      /\ pc' = "decide"
    /\ UNCHANGED <<kind, request, retries, access, maxBodyBytes, retry, trace, result, wire>>
    /\ UNCHANGED <<currentRequestor, storing, sanVars, urnVars, callVars>>

SwapNext ==
    \/ CallDo
    \/ AccessCheck
    \/ DispatchVia
    \/ Decide
    \/ DoReturn
    \/ SetRequestorBegin
    \/ SetRequestorEnd

SwapSpec == Init /\ [][SwapNext]_vars

\* the invocation went through a Requestor that was installed, or was being
\* installed, when it was made
ViaInstalled(v) == v.via = v.current \/ (v.storing # "none" /\ v.via = v.storing)

\* between the two invocations a SetRequestor ran from start to end and
\* installed another Requestor
SwappedBetween(v, w) == v.storing = "none" /\ w.storing = "none" /\ v.current # w.current

\* C17: every invocation goes through the Requestor installed at its moment;
\* when SetRequestor runs between two invocations of a call they go through
\* two different Requestors, and the retry counter goes on counting.
C17_InstalledRequestorUsed ==
    /\ \A i \in 1..Len(vias) : ViaInstalled(vias[i])
    /\ \A i \in 1..(Len(vias) - 1) :
          SwappedBetween(vias[i], vias[i + 1]) => vias[i].via # vias[i + 1].via
    /\ (pc \in {"decide", "do_ret", "done"} /\ Len(vias) >= 1) => retry = Len(vias) - 1

====
